---- MODULE Spec2Model ----
(***************************************************************************)
(* A model of get_available_data.py: the coordinate resolver               *)
(* get_lat_lon_from_ndbcnoaa, the swell-event scan and catalogue loop of   *)
(* realtime and historic, and the station loop of any_realtime.            *)
(*                                                                         *)
(* Text is a sequence of one-character strings, so that the regular        *)
(* expression and the string slicing of the source are computed character  *)
(* by character.  A float read from the page is a sign and a pair (m, e)    *)
(* standing for m * 10^-e; timestamps are whole seconds.                   *)
(***************************************************************************)
EXTENDS Integers, Sequences, FiniteSets, TLC

VARIABLES
    entry,          \* the function of the module the caller invoked
    caller,         \* the arguments the caller bound in that call
    pc,             \* position of the control flow
    fn,             \* the function body that is running: realtime or historic
    args,           \* the parameters bound in the running realtime/historic call
    response,       \* requests.get(url): status_code and text
    coord,          \* outcome of get_lat_lon_from_ndbcnoaa
    log,            \* diagnostics printed so far
    data,           \* the measurement table after the sentinel filter
    i,              \* index of the scan loop (rows consumed so far)
    swell_event,    \* the accumulator of the scan
    first_date,
    last_date,
    k,              \* index of the catalogue loop (events queried so far)
    queries,        \* the calls made to api.query and what each returned
    downloads,      \* the product sets handed to api.download_all
    product_list,
    station,        \* index of the station loop of any_realtime
    calls,          \* the realtime calls made by any_realtime
    all_products,
    summary         \* the lines of the summary any_realtime prints

vars == << entry, caller, pc, fn, args, response, coord, log, data, i,
           swell_event, first_date, last_date, k, queries, downloads,
           product_list, station, calls, all_products, summary >>

(***************************************************************************)
(* Bounds of the model.                                                    *)
(***************************************************************************)
MaxRows == 3        \* rows of a fetched table drawn from every kind of row
MaxHourly == 6      \* rows of a fetched table without missing measurements
MaxCoarse == 3      \* rows of a table fetched for a station of any_realtime
MaxWindow == 3      \* largest window (hours) passed to realtime or historic
MaxProducts == 2    \* products the catalogue can return for one query
NumStations == 2    \* stations of list_of_realtime_buoys_NOAA that are visited
CoarseStepHours == 12   \* hours between the rows fetched for such a station

(***************************************************************************)
(* Constants of the program.                                               *)
(***************************************************************************)
SecondsPerHour == 3600
Sentinel == 99
DefaultWindow == 24
DefaultWindWaveHeight == 99
StatusOK == 200

\* the head of the list of 77 stations; any_realtime visits the first
\* NumStations of them
list_of_realtime_buoys_NOAA == << 41001, 41002, 41004, 41008, 41009 >>

Abs(x) == IF x < 0 THEN -x ELSE x

(***************************************************************************)
(* Text helpers.                                                           *)
(***************************************************************************)
Digits == << "0", "1", "2", "3", "4", "5", "6", "7", "8", "9" >>

IsDigit(c) == \E d \in 1..Len(Digits) : Digits[d] = c

DigitVal(c) == (CHOOSE d \in 1..Len(Digits) : Digits[d] = c) - 1

\* s[p], or the empty string past the end of s
CharAt(s, p) == IF p >= 1 /\ p <= Len(s) THEN s[p] ELSE ""

\* The first position at or after p that holds no digit: where a greedy \d+
\* started at p stops.
RECURSIVE DigitsEnd(_, _)
DigitsEnd(s, p) == IF IsDigit(CharAt(s, p)) THEN DigitsEnd(s, p + 1) ELSE p

\* int() of a digit string
RECURSIVE DigitsValue(_)
DigitsValue(ds) ==
    IF ds = << >> THEN 0
    ELSE 10 * DigitsValue(SubSeq(ds, 1, Len(ds) - 1)) + DigitVal(ds[Len(ds)])

\* float() of "<ip>.<fp>": m * 10^-e with its sign kept apart, as a float
\* keeps it (0.0 * -1.0 is -0.0)
ParseFloat(ip, fp) == [neg |-> FALSE, m |-> DigitsValue(ip \o fp), e |-> Len(fp)]

\* x * -1.0
Negate(x) == [x EXCEPT !.neg = ~x.neg]

(***************************************************************************)
(* get_lat_lon_from_ndbcnoaa                                               *)
(***************************************************************************)
\* The classes [N|S] and [W|E] of regex_pattern under re.IGNORECASE: inside
\* brackets the bar is an ordinary character.
LatClass == { "N", "|", "S", "n", "s" }

LonClass == { "W", "|", "E", "w", "e" }

NoMatch == [found |-> FALSE]

\* re.match of regex_pattern at position p of html: the four groups, or NoMatch.
\* A greedy \d+ never has to give a digit back, because what follows it in the
\* pattern ("." or " ") is no digit.
MatchAt(html, p) ==
    LET a == DigitsEnd(html, p)
        b == DigitsEnd(html, a + 1)
        c == DigitsEnd(html, b + 3)
        d == DigitsEnd(html, c + 1)
    IN  IF /\ a > p
           /\ CharAt(html, a) = "."
           /\ b > a + 1
           /\ CharAt(html, b) = " "
           /\ CharAt(html, b + 1) \in LatClass
           /\ CharAt(html, b + 2) = " "
           /\ c > b + 3
           /\ CharAt(html, c) = "."
           /\ d > c + 1
           /\ CharAt(html, d) = " "
           /\ CharAt(html, d + 1) \in LonClass
        THEN [found |-> TRUE,
              g1 |-> << SubSeq(html, p, a - 1), SubSeq(html, a + 1, b - 1) >>,
              g2 |-> html[b + 1],
              g3 |-> << SubSeq(html, b + 3, c - 1), SubSeq(html, c + 1, d - 1) >>,
              g4 |-> html[d + 1]]
        ELSE NoMatch

\* re.search: the match at the leftmost position that has one
RECURSIVE SearchFrom(_, _)
SearchFrom(html, p) ==
    IF p > Len(html) THEN NoMatch
    ELSE IF MatchAt(html, p).found THEN MatchAt(html, p)
    ELSE SearchFrom(html, p + 1)

RegexSearch(html) == SearchFrom(html, 1)

\* lat after "if lat_direction == 'S'"
SignedLat(lat, lat_direction) == IF lat_direction = "S" THEN Negate(lat) ELSE lat

\* lon after "if lon_direction == 'W'"
SignedLon(lon, lon_direction) == IF lon_direction = "W" THEN Negate(lon) ELSE lon

\* (None, None)
NoneNone == [isNone |-> TRUE]

\* What a call of get_lat_lon_from_ndbcnoaa does with the response: it returns
\* a pair, having printed `printed`, or it raises.
GetLatLon(resp) ==
    IF resp.status_code = StatusOK
    THEN LET search == RegexSearch(resp.text)
         IN  IF search.found
             THEN [kind |-> "return",
                   value |-> [isNone |-> FALSE,
                              lat |-> SignedLat(ParseFloat(search.g1[1], search.g1[2]), search.g2),
                              lon |-> SignedLon(ParseFloat(search.g3[1], search.g3[2]), search.g4)],
                   printed |-> << >>]
             ELSE [kind |-> "return", value |-> NoneNone,
                   printed |-> << "Regex pattern not found... " >>]
    \* 'Something went wrong ...' + response.status_code adds an int to a str:
    \* the argument of print raises TypeError before anything is printed
    ELSE [kind |-> "raise", value |-> [isNone |-> TRUE], printed |-> << >>]

(***************************************************************************)
(* Pages the station site can answer with.                                 *)
(***************************************************************************)
Spaced(a, b, c, d) == a \o << " " >> \o b \o << " " >> \o c \o << " " >> \o d

PagePrefixes == { << >>, << "4", "1", " " >>, << "x" >> }

LatTokens == { << "4", "1", ".", "2" >>, << "0", ".", "0" >>, << "4", "1" >> }

LonTokens == { << "7", "2", ".", "6" >>, << "1", ".", "2", "5" >> }

LatDirTokens == { << "N" >>, << "S" >>, << "n" >>, << "s" >>, << "|" >>, << "X" >> }

LonDirTokens == { << "W" >>, << "E" >>, << "w" >>, << "e" >>, << "|" >>, << "X" >> }

Pages ==
    { pre \o Spaced(la, ld, lo, od) \o << "<" >> :
        pre \in PagePrefixes, la \in LatTokens, ld \in LatDirTokens,
        lo \in LonTokens, od \in LonDirTokens }

\* "41.2 N 72.6 W"
GoodPage == Spaced(<< "4", "1", ".", "2" >>, << "N" >>, << "7", "2", ".", "6" >>, << "W" >>)

StatusCodes == { StatusOK, 404 }

\* The responses drawn when realtime or historic resolves its station
StationResponses ==
    { [status_code |-> StatusOK, text |-> GoodPage],
      [status_code |-> StatusOK, text |-> << "x" >>],
      [status_code |-> 404, text |-> << >>] }

\* The responses drawn when the resolver is called on its own
Responses == [status_code : StatusCodes, text : Pages \cup { GoodPage }]

(***************************************************************************)
(* The measurement tables.  A row is [t, v]: the timestamp that indexes it *)
(* (seconds) and its columns.  Heights are whole metres around the         *)
(* thresholds the callers pass (2 for the primary, 2 or 99 for the         *)
(* secondary), so that both sides and the boundary of each comparison      *)
(* occur.                                                                  *)
(***************************************************************************)
Threshold == 2       \* the height the callers pass as swell_height, wave_height

\* rows of <station>.spec: any combination with at most one column off
RealtimeKinds ==
    { v \in [SwH : { Threshold - 1, Threshold, Sentinel },
              WWH : { Threshold, Threshold + 1, Sentinel }] :
        v.SwH = Threshold \/ v.WWH = Threshold }

\* rows of the standard meteorological file
HistoricKinds == [WVHT : { Threshold - 1, Threshold, Sentinel }]

Kinds(f) == IF f = "realtime" THEN RealtimeKinds ELSE HistoricKinds

\* rows without a missing measurement and with calm wind waves
PlainKinds(f) ==
    IF f = "realtime" THEN [SwH : { Threshold - 1, Threshold }, WWH : { Threshold }]
    ELSE [WVHT : { Threshold - 1, Threshold }]

SeqsUpTo(S, n) == UNION { [1..m -> S] : m \in 0..n }

Orders == { "asc", "desc" }

\* The table with columns vs, one row every `step` seconds, oldest first or
\* newest first.
Table(vs, order, step) ==
    [j \in 1..Len(vs) |->
        [t |-> (IF order = "asc" THEN j - 1 ELSE Len(vs) - j) * step, v |-> vs[j]]]

Primary(f, row) == IF f = "realtime" THEN row.v.SwH ELSE row.v.WVHT

\* spec[spec.SwH != 99.00], data[data.WVHT != 99.00]
SentinelFilter(f, rows) == SelectSeq(rows, LAMBDA row : Primary(f, row) # Sentinel)

(***************************************************************************)
(* The scan loop of realtime and historic.                                 *)
(***************************************************************************)
\* the condition of the if that opens the loop body
Predicate(f, a, row) ==
    IF f = "realtime"
    THEN row.v.SwH >= a.swell_height /\ row.v.WWH <= a.wind_wave_height
    ELSE row.v.WVHT >= a.wave_height

\* abs(swell_event[0] - swell_event[-1]).total_seconds()
Elapsed(acc) == Abs(acc[1] - acc[Len(acc)])

\* Variants of the loop's tests and resets, each a slip the properties below
\* must tell from the loop as written.
Confirms_strict(acc, window) == Elapsed(acc) > window * SecondsPerHour

Confirms_count(acc, window) == Len(acc) * SecondsPerHour >= window * SecondsPerHour

AfterEmission_seed(acc) == << acc[Len(acc)] >>

AfterBreak_keep(acc) == acc

\* the test "... >= window*3600"
Confirms(acc, window) == Elapsed(acc) >= window * SecondsPerHour

\* what is appended to first_date and to last_date
FirstDate(f, acc) == IF f = "realtime" THEN acc[Len(acc)] ELSE acc[1]

LastDate(f, acc) == IF f = "realtime" THEN acc[1] ELSE acc[Len(acc)]

\* the accumulator after an event was recorded, and after a failed predicate
AfterEmission(acc) == << >>

AfterBreak(acc) == << >>

\* One pass of the loop body on `row`, from the lists in st.
ScanBody(f, a, row, st) ==
    IF Predicate(f, a, row)
    THEN LET acc == Append(st.swell_event, row.t)
         IN  IF Confirms(acc, a.window)
             THEN [swell_event |-> AfterEmission(acc),
                   first_date |-> Append(st.first_date, FirstDate(f, acc)),
                   last_date |-> Append(st.last_date, LastDate(f, acc))]
             ELSE [st EXCEPT !.swell_event = acc]
    ELSE [st EXCEPT !.swell_event = AfterBreak(st.swell_event)]

(***************************************************************************)
(* The catalogue loop of realtime and historic.  The answer of api.query   *)
(* is an ordered dictionary, modelled as the sequence of its items.        *)
(***************************************************************************)
Product(n) ==
    [key |-> << "u", Digits[n + 1] >>, title |-> << "S", "1", "_", Digits[n + 1] >>]

Catalogue == [n \in 1..MaxProducts |-> Product(n)]

\* what one query can return: the first b products of the catalogue
QueryResults == { SubSeq(Catalogue, 1, b) : b \in 0..MaxProducts }

RECURSIVE JoinQuoted(_)
JoinQuoted(keys) ==
    IF keys = << >> THEN << >>
    ELSE << "'" >> \o keys[1] \o << "'" >>
         \o (IF Len(keys) > 1 THEN << ",", " " >> ELSE << >>)
         \o JoinQuoted(Tail(keys))

\* str(products.keys()): odict_keys(['k1', 'k2'])
KeysRepr(products) ==
    << "o", "d", "i", "c", "t", "_", "k", "e", "y", "s", "(", "[" >>
    \o JoinQuoted([n \in 1..Len(products) |-> products[n].key])
    \o << "]", ")" >>

\* s[a:] for a >= 0 followed by [:-b]
Slice(s, a, b) == SubSeq(s, a + 1, Len(s) - b)

\* s.split(',')
RECURSIVE SplitFrom(_, _, _)
SplitFrom(s, p, piece) ==
    IF p > Len(s) THEN << piece >>
    ELSE IF s[p] = "," THEN << piece >> \o SplitFrom(s, p + 1, << >>)
    ELSE SplitFrom(s, p + 1, Append(piece, s[p]))

Split(s) == SplitFrom(s, 1, << >>)

\* cleaning_data after the slicing, the split and the loop that strips each
\* piece
ProductKeys(products) ==
    LET cleaning_data == Split(Slice(KeysRepr(products), 12, 2))
    IN  [n \in 1..Len(cleaning_data) |->
            IF n = 1 THEN Slice(cleaning_data[n], 1, 1)
            ELSE Slice(cleaning_data[n], 2, 1)]

\* The value of i after "for i in range(len(cleaning_data))", as a position
\* of product_keys counted from 1.
LeakedIndex(product_keys) == Len(product_keys)

HasKey(products, key) == \E n \in 1..Len(products) : products[n].key = key

\* products[key]['title']
TitleOf(products, key) ==
    products[CHOOSE n \in 1..Len(products) : products[n].key = key].title

(***************************************************************************)
(* Calls.                                                                  *)
(***************************************************************************)
\* The parameters bound by a call of realtime.
RealtimeCall(location, swell_height, window, wind_wave_height, platformname, auto_download) ==
    [location |-> location,
     swell_height |-> swell_height,
     window |-> window,
     wind_wave_height |-> wind_wave_height,
     platformname |-> platformname,
     polarisationmode |-> "VV",
     producttype |-> "SLC",
     sensoroperationalmode |-> "IW",
     auto_download |-> auto_download]

\* realtime(location, username, password, swell_height): every other
\* parameter takes the default of the signature
RealtimeDefaults(location, swell_height) ==
    RealtimeCall(location, swell_height, DefaultWindow, DefaultWindWaveHeight,
                 "Sentinel-1", "off")

HistoricCall(location, year, wave_height, window, auto_download) ==
    [location |-> location,
     year |-> year,
     wave_height |-> wave_height,
     window |-> window,
     platformname |-> "Sentinel-1",
     polarisationmode |-> "VV",
     producttype |-> "SLC",
     sensoroperationalmode |-> "IW",
     auto_download |-> auto_download]

Windows == 0..MaxWindow

RealtimeCalls ==
    { RealtimeCall(42055, Threshold, w, x, "Sentinel-1", d) :
        w \in Windows, x \in { Threshold, DefaultWindWaveHeight }, d \in { "on", "off" } }

HistoricCalls ==
    { HistoricCall(42055, 2015, Threshold, w, d) : w \in Windows, d \in { "on", "off" } }

AnyRealtimeCalls ==
    [swell_height : { Threshold },
     window : { CoarseStepHours, DefaultWindow },
     wind_wave_height : { Threshold, DefaultWindWaveHeight },
     platformname : { "Sentinel-1", "Sentinel-2" },
     polarisationmode : { "VV" },
     producttype : { "SLC" },
     sensoroperationalmode : { "IW" }]

ResolverCalls == { [index |-> 42055] }

NoCall == [location |-> "none"]

Stations == SubSeq(list_of_realtime_buoys_NOAA, 1, NumStations)

NoResponse == [status_code |-> 0, text |-> << >>]

NoCoord == [kind |-> "none", value |-> NoneNone, printed |-> << >>]

(***************************************************************************)
(* The state after the caller's call is bound.                             *)
(***************************************************************************)
Init ==
    /\ entry \in { "realtime", "historic", "any_realtime", "get_lat_lon_from_ndbcnoaa" }
    /\ caller \in CASE entry = "realtime" -> RealtimeCalls
                    [] entry = "historic" -> HistoricCalls
                    [] entry = "any_realtime" -> AnyRealtimeCalls
                    [] OTHER -> ResolverCalls
    /\ fn = IF entry \in { "realtime", "historic" } THEN entry ELSE "none"
    /\ args = IF entry \in { "realtime", "historic" } THEN caller ELSE NoCall
    /\ pc = IF entry = "any_realtime" THEN "stations" ELSE "resolve"
    /\ response = NoResponse
    /\ coord = NoCoord
    /\ log = << >>
    /\ data = << >>
    /\ i = 0
    /\ swell_event = << >>
    /\ first_date = << >>
    /\ last_date = << >>
    /\ k = 0
    /\ queries = << >>
    /\ downloads = << >>
    /\ product_list = << >>
    /\ station = 0
    /\ calls = << >>
    /\ all_products = << >>
    /\ summary = << >>

(***************************************************************************)
(* get_lat_lon_from_ndbcnoaa, called on its own or as the first statement  *)
(* of realtime and historic.  There the pair is unpacked and lat + dx is   *)
(* computed next, which raises TypeError when lat is None.                 *)
(***************************************************************************)
Resolve ==
    /\ pc = "resolve"
    /\ \E resp \in (IF entry = "get_lat_lon_from_ndbcnoaa" THEN Responses
                    ELSE StationResponses) :
        LET r == GetLatLon(resp)
        IN  /\ response' = resp
            /\ coord' = r
            /\ log' = log \o r.printed
            /\ pc' = IF r.kind = "raise" THEN "raised"
                     ELSE IF entry = "get_lat_lon_from_ndbcnoaa" THEN "done"
                     ELSE IF r.value.isNone THEN "raised"
                     ELSE "fetch"
    /\ UNCHANGED << entry, caller, fn, args, data, i, swell_event, first_date,
                    last_date, k, queries, downloads, product_list, station,
                    calls, all_products, summary >>

(***************************************************************************)
(* bp.realtime(location).spec() or bp.historic_data(location, year)        *)
(* .get_stand_meteo(), the sentinel filter, and the empty lists.           *)
(***************************************************************************)
\* The tables drawn for the running call: up to MaxRows rows of any kind, or,
\* for a positive window, up to MaxHourly rows without a missing measurement;
\* for a station of any_realtime, up to MaxCoarse rows CoarseStepHours apart.
FetchedTables ==
    IF entry = "any_realtime"
    THEN { Table(vs, o, CoarseStepHours * SecondsPerHour) :
            vs \in SeqsUpTo(PlainKinds(fn), MaxCoarse), o \in Orders }
    ELSE { Table(vs, o, SecondsPerHour) :
            vs \in SeqsUpTo(Kinds(fn), MaxRows)
                   \cup (IF args.window > 0 THEN SeqsUpTo(PlainKinds(fn), MaxHourly)
                         ELSE { }),
            o \in Orders }

Fetch ==
    /\ pc = "fetch"
    /\ \E rows \in FetchedTables :
        /\ data' = SentinelFilter(fn, rows)
        /\ pc' = IF Len(data') = 0 THEN "query" ELSE "scan"
    /\ i' = 0
    /\ swell_event' = << >>
    /\ first_date' = << >>
    /\ last_date' = << >>
    /\ product_list' = << >>
    /\ k' = 0
    /\ queries' = << >>
    /\ downloads' = << >>
    /\ UNCHANGED << entry, caller, fn, args, response, coord, log, station, calls,
                    all_products, summary >>

\* One pass of the loop "for i in range(len(...index))".
Scan ==
    /\ pc = "scan"
    /\ i < Len(data)
    /\ LET st == ScanBody(fn, args, data[i + 1],
                          [swell_event |-> swell_event, first_date |-> first_date,
                           last_date |-> last_date])
       IN  /\ swell_event' = st.swell_event
           /\ first_date' = st.first_date
           /\ last_date' = st.last_date
    /\ i' = i + 1
    /\ pc' = IF i' = Len(data) THEN "query" ELSE "scan"
    /\ UNCHANGED << entry, caller, fn, args, response, coord, log, data, k,
                    queries, downloads, product_list, station, calls, all_products, summary >>

(***************************************************************************)
(* One pass of the loop "for i in range(len(first_date))": the query, the  *)
(* key extraction, and the download or the title.  The inner loop over     *)
(* cleaning_data reuses the name i, so after it product_keys[i] is the     *)
(* last key.                                                               *)
(***************************************************************************)
QueryCall(products) ==
    [footprint |-> coord.value,
     date |-> << first_date[k + 1], last_date[k + 1] >>,
     platformname |-> args.platformname,
     polarisationmode |-> args.polarisationmode,
     producttype |-> args.producttype,
     sensoroperationalmode |-> args.sensoroperationalmode,
     products |-> products]

Query ==
    /\ pc = "query"
    /\ k < Len(first_date)
    /\ \E products \in QueryResults :
        /\ queries' = Append(queries, QueryCall(products))
        /\ IF Len(products) = 0
           THEN /\ pc' = "query"
                /\ UNCHANGED << downloads, product_list >>
           ELSE LET product_keys == ProductKeys(products)
                    key == product_keys[LeakedIndex(product_keys)]
                IN  /\ downloads' = IF args.auto_download = "on"
                                    THEN Append(downloads, products)
                                    ELSE downloads
                    /\ product_list' = IF args.auto_download # "on" /\ HasKey(products, key)
                                       THEN Append(product_list, TitleOf(products, key))
                                       ELSE product_list
                    \* products[product_keys[i]] raises KeyError for a key that
                    \* is not in the dictionary; historic reads it only when
                    \* it does not download
                    /\ pc' = IF /\ ~HasKey(products, key)
                                /\ (fn = "realtime" \/ args.auto_download # "on")
                             THEN "raised"
                             ELSE "query"
    /\ k' = k + 1
    /\ UNCHANGED << entry, caller, fn, args, response, coord, log, data, i,
                    swell_event, first_date, last_date, station, calls,
                    all_products, summary >>

\* return product_list; in any_realtime the value is added to all_products
Return ==
    /\ pc = "query"
    /\ k = Len(first_date)
    /\ IF entry = "any_realtime"
       THEN /\ all_products' = Append(all_products, product_list)
            /\ station' = station + 1
            /\ pc' = "stations"
       ELSE /\ pc' = "done"
            /\ UNCHANGED << all_products, station >>
    /\ UNCHANGED << entry, caller, fn, args, response, coord, log, data, i,
                    swell_event, first_date, last_date, k, queries, downloads,
                    product_list, calls, summary >>

(***************************************************************************)
(* any_realtime                                                            *)
(***************************************************************************)
\* all_products += [realtime(list_of_realtime_buoys_NOAA[i], username,
\* password, swell_height)]: the call
AnyCall ==
    /\ pc = "stations"
    /\ station < Len(Stations)
    /\ fn' = "realtime"
    /\ args' = RealtimeDefaults(Stations[station + 1], caller.swell_height)
    /\ calls' = Append(calls, args')
    /\ pc' = "resolve"
    /\ UNCHANGED << entry, caller, response, coord, log, data, i, swell_event,
                    first_date, last_date, k, queries, downloads, product_list,
                    station, all_products, summary >>

\* the line printed for station n
SummaryLine(n) ==
    [station |-> Stations[n], products |-> Len(all_products[n]), window |-> caller.window]

\* the summary loop and "return all_products"
AnySummary ==
    /\ pc = "stations"
    /\ station = Len(Stations)
    /\ summary' = SelectSeq([n \in 1..Len(all_products) |-> SummaryLine(n)],
                            LAMBDA line : line.products # 0)
    /\ pc' = "done"
    /\ UNCHANGED << entry, caller, fn, args, response, coord, log, data, i,
                    swell_event, first_date, last_date, k, queries, downloads,
                    product_list, station, calls, all_products >>

Next ==
    \/ Resolve
    \/ Fetch
    \/ Scan
    \/ Query
    \/ Return
    \/ AnyCall
    \/ AnySummary

Spec == Init /\ [][Next]_vars

(***************************************************************************)
(* Vocabulary of the properties.                                           *)
(***************************************************************************)
\* The body of realtime or historic is past its fetch: data, i and the three
\* lists are those of the running (or finished) call.
InBody == pc \in { "scan", "query" } \/ (pc = "done" /\ entry \in { "realtime", "historic" })

Finished == pc = "done" /\ entry \in { "realtime", "historic" }

Qualifies(j) == Predicate(fn, args, data[j])

Earliest(n) == IF first_date[n] <= last_date[n] THEN first_date[n] ELSE last_date[n]

Latest(n) == IF first_date[n] >= last_date[n] THEN first_date[n] ELSE last_date[n]

\* the rows whose timestamp lies within event n
Span(n) == { j \in 1..Len(data) : Earliest(n) <= data[j].t /\ data[j].t <= Latest(n) }

\* the events that lie within rows a..b
EventsWithin(a, b) == { n \in 1..Len(first_date) : Span(n) # { } /\ Span(n) \subseteq a..b }

\* rows a..b all satisfy the predicate and the row before a, if any, does not
RunFrom(a, b) ==
    /\ \A j \in a..b : Qualifies(j)
    /\ a = 1 \/ ~Qualifies(a - 1)

Duration(a, b) == Abs(data[b].t - data[a].t)

\* C1: a run of consecutive qualifying samples that starts where the
\* accumulator starts and whose first-to-last duration is exactly the window
\* yields, once its last sample has been scanned, exactly one event, and the
\* two endpoints of that event are the first and the last timestamp of the
\* run.  Checked for tables oldest first and newest first.
ExactWindowRunEmitsOnce ==
    InBody =>
        \A a \in 1..i : \A b \in a..i :
            (RunFrom(a, b) /\ Duration(a, b) = args.window * SecondsPerHour)
            => /\ Cardinality(EventsWithin(a, b)) = 1
               /\ \A n \in EventsWithin(a, b) :
                    { first_date[n], last_date[n] } = { data[a].t, data[b].t }

ExactWindowRunSeen ==
    /\ Finished
    /\ args.window > 0
    /\ Len(first_date) >= 2
    /\ \E a \in 1..Len(data) : \E b \in a..Len(data) :
        /\ RunFrom(a, b)
        /\ Duration(a, b) = args.window * SecondsPerHour
        /\ b < Len(data) /\ Qualifies(b + 1)

\* the table of the example: six hourly samples t0..t5, the first four at the
\* threshold and the last two below it
ExampleTable ==
    Table([j \in 1..6 |->
              IF fn = "realtime"
              THEN [SwH |-> IF j <= 4 THEN Threshold ELSE Threshold - 1, WWH |-> Threshold]
              ELSE [WVHT |-> IF j <= 4 THEN Threshold ELSE Threshold - 1]],
          "asc", SecondsPerHour)

\* the row at which event n was recorded
ConfirmedAt(n) == CHOOSE j \in Span(n) : \A h \in Span(n) : h <= j

\* C2: the accumulator is empty right after an emission (in the state after
\* the pass that recorded an event), no row of the table lies within two
\* events, and no timestamp of the accumulator lies within an event; for the
\* hourly samples t0..t5 with the predicate true at t0..t3 and a window of
\* 3 hours there is no event before t3 is scanned and from then on exactly
\* one, with endpoints t0 and t3.
AccumulatorEmptyAfterEmission ==
    InBody =>
        /\ \A n \in 1..Len(first_date) :
            (i >= 1 /\ ConfirmedAt(n) = i) => swell_event = << >>
        /\ \A m \in 1..Len(first_date) : \A n \in 1..Len(first_date) :
            m # n => Span(m) \cap Span(n) = { }
        /\ \A n \in 1..Len(first_date) : \A h \in 1..Len(swell_event) :
            swell_event[h] < Earliest(n) \/ swell_event[h] > Latest(n)
        /\ (data = ExampleTable /\ args.window = 3)
            => IF i < 4 THEN first_date = << >>
               ELSE /\ Len(first_date) = 1
                    /\ { first_date[1], last_date[1] } = { 0, 3 * SecondsPerHour }

ExampleScanned ==
    /\ Finished
    /\ data = ExampleTable
    /\ args.window = 3
    /\ Len(first_date) = 1

\* C3: every recorded event has start <= end (start the earliest and end the
\* latest timestamp of the accumulator), and every catalogue query carries
\* the date range (start, end) in that order.
EventsStartEarliest ==
    InBody =>
        /\ \A n \in 1..Len(first_date) : first_date[n] <= last_date[n]
        /\ \A q \in 1..Len(queries) :
            /\ queries[q].date = << first_date[q], last_date[q] >>
            /\ queries[q].date[1] <= queries[q].date[2]

\* C4 as stated: whatever window the caller passes, no event has its start
\* timestamp equal to its end timestamp.
NoSingleSampleEvent ==
    InBody => \A n \in 1..Len(first_date) : first_date[n] # last_date[n]

\* C4 as amended: for a window above zero no event has its start timestamp
\* equal to its end timestamp, so none consists of a single sample.
NoSingleSampleEventForPositiveWindow ==
    (InBody /\ args.window > 0)
    => \A n \in 1..Len(first_date) :
        first_date[n] # last_date[n] /\ Cardinality(Span(n)) >= 2

\* a lone qualifying sample was scanned under a positive window, and an event
\* was recorded elsewhere
LoneSampleScanned ==
    /\ Finished
    /\ args.window > 0
    /\ Len(first_date) >= 1
    /\ \E j \in 1..Len(data) :
        /\ Qualifies(j)
        /\ j = 1 \/ ~Qualifies(j - 1)
        /\ j = Len(data) \/ ~Qualifies(j + 1)

\* C5: every event covers rows of the filtered table that all satisfy the
\* predicate, begins and ends at such a row, and lasts at least the window;
\* when no row satisfies the predicate there is no event and no catalogue
\* query.
EventsAreQualifyingRuns ==
    InBody =>
        /\ \A n \in 1..Len(first_date) :
            /\ \A j \in Span(n) : Qualifies(j)
            /\ \E a \in Span(n) : \E b \in Span(n) :
                data[a].t = Earliest(n) /\ data[b].t = Latest(n)
            /\ Latest(n) - Earliest(n) >= args.window * SecondsPerHour
        /\ (\A j \in 1..Len(data) : ~Qualifies(j))
            => first_date = << >> /\ last_date = << >> /\ queries = << >>

\* an event was recorded in a table that also holds a row failing the
\* predicate between qualifying rows
BrokenRunScanned ==
    /\ Finished
    /\ Len(first_date) >= 1
    /\ \E j \in 2..(Len(data) - 1) :
        ~Qualifies(j) /\ Qualifies(j - 1) /\ Qualifies(j + 1)

\* C6: when the pattern matches, the latitude returned is negative exactly
\* when the matched latitude indicator denotes south (S or s) and the
\* longitude returned is negative exactly when the matched longitude
\* indicator denotes west (W or w).
SignFollowsHemisphere ==
    (entry = "get_lat_lon_from_ndbcnoaa" /\ pc = "done" /\ ~coord.value.isNone)
    => LET search == RegexSearch(response.text)
       IN  /\ coord.value.lat.neg <=> search.g2 \in { "S", "s" }
           /\ coord.value.lon.neg <=> search.g4 \in { "W", "w" }

\* C7: when the fetch does not succeed or the pattern is not found, the
\* resolver prints a diagnostic and returns (None, None); it never raises.
ResolverFailuresReturnNone ==
    (entry = "get_lat_lon_from_ndbcnoaa" /\ pc \in { "done", "raised" })
    => /\ pc # "raised"
       /\ (response.status_code # StatusOK \/ ~RegexSearch(response.text).found)
            => coord.kind = "return" /\ coord.value.isNone /\ Len(log) >= 1

\* the titles of every product of every answer, in the order of the queries
RECURSIVE TitlesOf(_)
TitlesOf(qs) ==
    IF qs = << >> THEN << >>
    ELSE TitlesOf(SubSeq(qs, 1, Len(qs) - 1))
         \o [n \in 1..Len(qs[Len(qs)].products) |-> qs[Len(qs)].products[n].title]

\* C8: with auto_download off, the list returned holds the title of every
\* product the catalogue returned for every event, in event order, and an
\* event without products adds nothing and raises nothing.
AllTitlesReturned ==
    (Finished /\ args.auto_download = "off")
    => /\ Len(queries) = Len(first_date)
       /\ product_list = TitlesOf(queries)

\* C9: no row of the table being scanned carries the sentinel 99.00 in a
\* column the predicate reads.
NoSentinelScanned ==
    pc = "scan" =>
        \A j \in 1..Len(data) :
            /\ Primary(fn, data[j]) # Sentinel
            /\ fn = "realtime" => data[j].v.WWH # Sentinel

\* C10: every realtime call made by any_realtime carries the swell_height,
\* window, wind_wave_height, platform name, polarisation mode, product type
\* and sensor mode the caller passed, there is one result per station in list
\* order, and the window of the summary is the window of the scans.
AnyRealtimePassesArguments ==
    entry = "any_realtime" =>
        /\ \A n \in 1..Len(calls) :
            /\ calls[n].location = Stations[n]
            /\ calls[n].swell_height = caller.swell_height
            /\ calls[n].window = caller.window
            /\ calls[n].wind_wave_height = caller.wind_wave_height
            /\ calls[n].platformname = caller.platformname
            /\ calls[n].polarisationmode = caller.polarisationmode
            /\ calls[n].producttype = caller.producttype
            /\ calls[n].sensoroperationalmode = caller.sensoroperationalmode
        /\ pc = "done" => Len(all_products) = Len(Stations)
        /\ \A n \in 1..Len(summary) :
            \A c \in 1..Len(calls) :
                calls[c].location = summary[n].station => summary[n].window = calls[c].window

====
